---- MODULE Spec2Model ----
(***************************************************************************)
(* The Ceilometer -> Gnocchi dispatcher (gnocchi/ceilometer/dispatcher.py) *)
(* as a state machine.  One behaviour is one call of record_metering_data  *)
(* on one batch: the batch is cut into groups by itertools.groupby, every  *)
(* group is handed to _process_samples once per extension that owns its    *)
(* counter_name, and _process_samples talks to the store one HTTP call at  *)
(* a time.  The store is the environment: every call may be answered with  *)
(* any status code of StatusCodes.                                         *)
(***************************************************************************)
EXTENDS Integers, Sequences, FiniteSets, TLC

\* Longest batch handed to record_metering_data.
MaxBatch == 3

ResourceIds == {"r1", "r2"}
EntityNames == {"cpu", "disk", "net"}
StatusCodes == {200, 404, 409, 500}

\* self.mgmr: the loaded extensions in iteration order, each with the
\* result of ext.obj.get_entities_names().  "disk" is owned by two
\* extensions, "cpu" by one, "net" by none.
mgmr ==
    << [name |-> "instance", entities |-> {"cpu", "disk"}],
       [name |-> "volume",   entities |-> {"disk"}] >>

VARIABLES
    pc,            \* where the dispatcher is
    data,          \* the batch given to record_metering_data
    gi,            \* index (in entity_groups) of the group being iterated
    ei,            \* index (in mgmr) of the extension last tried for it
    samples_iter,  \* what the group's groupby sub-iterator still holds
    units,         \* arguments of every _process_samples call so far
    resource_need_to_be_updated,  \* the local of the current call
    calls,         \* HTTP calls of the current _process_samples call
    outcome,       \* how the last _process_samples call ended
    errors,        \* resource ids named in LOG.error records
    exc,           \* the exception that left record_metering_data
    store,         \* the remote store: its resources and entities
    store0,        \* the store as it was before the first call
    writers,       \* dispatchers running one unit each against the store
    settled,       \* (type, resource, name) of units ended after a 2xx post
    attr_args,     \* arguments of a _get_resource_attributes call
    attr_result,   \* what that call returned or raised
    APPCONFIGS,    \* the module-level dict of gnocchi/rest/app.py
    loaders        \* the load_app calls: where each is, and its locals

vars == << pc, data, gi, ei, samples_iter, units,
           resource_need_to_be_updated, calls, outcome, errors, exc >>

storeVars == << store, store0, writers, settled >>

attrVars == << attr_args, attr_result >>

appVars == << APPCONFIGS, loaders >>

\* The values of the variables a specification does not use.
NoStore == [resources |-> {}, entities |-> {}]

DispatcherIdle ==
    /\ pc = "idle"
    /\ data = << >>
    /\ gi = 0
    /\ ei = 0
    /\ samples_iter = << >>
    /\ units = << >>
    /\ resource_need_to_be_updated = TRUE
    /\ calls = << >>
    /\ outcome = "none"
    /\ errors = {}
    /\ exc = "none"

StoreIdle ==
    /\ store = NoStore
    /\ store0 = NoStore
    /\ writers = << >>
    /\ settled = {}

AttrIdle ==
    /\ attr_args = [called |-> FALSE]
    /\ attr_result = [raised |-> "nothing"]

AppIdle ==
    /\ APPCONFIGS = << >>
    /\ loaders = << >>

----------------------------------------------------------------------------
(* Samples and batches *)

\* A sample as the dispatcher reads it; the timestamp is the arrival
\* position, which makes the samples of one batch pairwise different.
Sample(i, rid, name) ==
    [resource_id |-> rid, counter_name |-> name,
     timestamp |-> i, counter_volume |-> 10 * i]

Keys == ResourceIds \X EntityNames

Batches ==
    UNION { { [i \in 1..n |-> Sample(i, ks[i][1], ks[i][2])] :
              ks \in [1..n -> Keys] } : n \in 0..MaxBatch }

----------------------------------------------------------------------------
(* record_metering_data: grouping *)

RECURSIVE groupby_restarting_run(_, _)
\* A grouper that starts the run's list afresh at every element, so that a
\* run keeps only its last element.
groupby_restarting_run(seq, field) ==
    IF seq = << >> THEN << >>
    ELSE LET n     == Len(seq)
             front == groupby_restarting_run(SubSeq(seq, 1, n - 1), field)
             x     == seq[n]
             m     == Len(front)
         IN  IF m > 0 /\ front[m].key = x[field]
             THEN [front EXCEPT ![m].items = << x >>]
             ELSE Append(front, [key |-> x[field], items |-> << x >>])

RECURSIVE groupby(_, _)
\* itertools.groupby(seq, key=operator.itemgetter(field)): the maximal runs
\* of consecutive elements with equal key, in order.
groupby(seq, field) ==
    IF seq = << >> THEN << >>
    ELSE LET n     == Len(seq)
             front == groupby(SubSeq(seq, 1, n - 1), field)
             x     == seq[n]
             m     == Len(front)
         IN  IF m > 0 /\ front[m].key = x[field]
             THEN [front EXCEPT ![m].items = Append(@, x)]
             ELSE Append(front, [key |-> x[field], items |-> << x >>])

RECURSIVE entity_groups_of(_)
\* The groups the two nested loops of record_metering_data walk through,
\* in order: for every resource run, the counter_name runs of its samples.
entity_groups_of(resource_groups) ==
    IF resource_groups = << >> THEN << >>
    ELSE LET g     == Head(resource_groups)
             inner == groupby(g.items, "counter_name")
         IN  [k \in 1..Len(inner) |->
                 [resource_id |-> g.key, entity_name |-> inner[k].key,
                  samples |-> inner[k].items]]
             \o entity_groups_of(Tail(resource_groups))

entity_grouped_samples(batch) ==
    entity_groups_of(groupby(batch, "resource_id"))

\* A loop that hands every group to every extension.
owns_everything(e, entity_name) == TRUE

\* if entity_name in ext.obj.get_entities_names()
owns(e, entity_name) == entity_name \in mgmr[e].entities

\* The (group, extension) pairs the loops still have to try after (g, e),
\* as positions in the iteration order.
later_matches(groups, g, e) ==
    { p \in (1..Len(groups)) \X (1..Len(mgmr)) :
        /\ p[1] > g \/ (p[1] = g /\ p[2] > e)
        /\ owns(p[2], groups[p[1]].entity_name) }

first_match(ps) ==
    CHOOSE p \in ps : \A q \in ps : p[1] < q[1] \/ (p[1] = q[1] /\ p[2] <= q[2])

----------------------------------------------------------------------------
(* The store client: status code -> what the call raises *)

is_2xx(status_code) == status_code \div 100 = 2

\* A client with the test for 404 turned around.
post_measure_raises_unless_missing(status_code) ==
    IF status_code # 404 THEN "NoSuchEntity"
    ELSE IF ~is_2xx(status_code) THEN "UnexpectedWorkflowError"
    ELSE "nothing"

\* A client that takes every failed post for a missing entity.
post_measure_raises_missing_on_failure(status_code) ==
    IF ~is_2xx(status_code) THEN "NoSuchEntity" ELSE "nothing"

post_measure_raises(status_code) ==
    IF status_code = 404 THEN "NoSuchEntity"
    ELSE IF ~is_2xx(status_code) THEN "UnexpectedWorkflowError"
    ELSE "nothing"

\* A client that takes every failed creation for a conflict.
create_resource_raises_exists_on_failure(status_code) ==
    IF ~is_2xx(status_code) THEN "ResourceAlreadyExists" ELSE "nothing"

create_resource_raises(status_code) ==
    IF status_code = 409 THEN "ResourceAlreadyExists"
    ELSE IF ~is_2xx(status_code) THEN "UnexpectedWorkflowError"
    ELSE "nothing"

\* A client that takes the 409 of create-entity for a failure.
create_entity_raises_on_conflict(status_code) ==
    IF ~is_2xx(status_code) THEN "UnexpectedWorkflowError" ELSE "nothing"

create_entity_raises(status_code) ==
    IF status_code = 409 THEN "EntityAlreadyExists"
    ELSE IF ~is_2xx(status_code) THEN "UnexpectedWorkflowError"
    ELSE "nothing"

update_resource_raises(status_code) ==
    IF ~is_2xx(status_code) THEN "UnexpectedWorkflowError" ELSE "nothing"

----------------------------------------------------------------------------
(* _process_samples *)

\* A builder that pairs every timestamp with the volume of the last sample.
measure_attributes_last_volume(samples) ==
    [k \in 1..Len(samples) |->
        [timestamp |-> samples[k].timestamp,
         value |-> samples[Len(samples)].counter_volume]]

\* measure_attributes: one {timestamp, value} per sample, in order.
measure_attributes(samples) ==
    [k \in 1..Len(samples) |->
        [timestamp |-> samples[k].timestamp, value |-> samples[k].counter_volume]]

\* _get_resource_attributes reads samples[-1]: IndexError on an empty list.
get_resource_attributes_raises(samples) ==
    IF samples = << >> THEN "IndexError" ELSE "nothing"

\* A dispatcher that passes resource_need_to_be_updated = False.
need_update_on_entry_off == FALSE

\* resource_need_to_be_updated as record_metering_data passes it.
need_update_on_entry == TRUE

\* A handler that leaves the flag untouched after a successful creation.
need_update_after_create_kept == TRUE

\* resource_need_to_be_updated after _create_resource returned normally.
need_update_after_create == FALSE

\* except NoSuchEntity on the first post: build the create body, then
\* _create_resource.
after_no_such_entity(samples) ==
    IF get_resource_attributes_raises(samples) # "nothing"
    THEN get_resource_attributes_raises(samples)
    ELSE "create_resource"

\* A workflow that never updates the resource after a post.
after_posted_without_update(need_update, samples) == "return"

\* if resource_need_to_be_updated: build the update body, then
\* _update_resource; otherwise the call returns.
after_posted(need_update, samples) ==
    IF need_update
    THEN IF get_resource_attributes_raises(samples) # "nothing"
         THEN get_resource_attributes_raises(samples)
         ELSE "update"
    ELSE "return"

\* What log_and_ignore_unexpected_workflow_error lets through.
escapes_decorator(raised) == raised # "UnexpectedWorkflowError"

unit == units[Len(units)]

\* The path a call is sent to, below self.gnocchi_url.
url_of(op, u) ==
    IF op = "post_measure"
    THEN << "v1", "resource", u.resource_type, u.resource_id,
            "entity", u.entity_name, "measures" >>
    ELSE IF op = "create_resource"
    THEN << "v1", "resource", u.resource_type >>
    ELSE IF op = "create_entity"
    THEN << "v1", "resource", u.resource_type, u.resource_id, "entity" >>
    ELSE << "v1", "resource", u.resource_type, u.resource_id >>

Call(op, status_code, body) ==
    [op |-> op, status |-> status_code, body |-> body, url |-> url_of(op, unit)]

\* Where control goes after a step of _process_samples: to the next call,
\* back to the loops of record_metering_data (returned, or the decorator
\* logged an UnexpectedWorkflowError), or out of record_metering_data with
\* the exception.
Continue(to) ==
    IF to \in {"create_resource", "create_entity", "retry_post", "update"}
    THEN /\ pc' = to
         /\ UNCHANGED << outcome, errors, exc >>
    ELSE IF to = "return"
    THEN /\ pc' = "loop"
         /\ outcome' = "returned"
         /\ UNCHANGED << errors, exc >>
    ELSE IF ~escapes_decorator(to)
    THEN /\ pc' = "loop"
         /\ outcome' = "logged"
         /\ errors' = errors \cup {unit.resource_id}
         /\ UNCHANGED exc
    ELSE /\ pc' = "raised"
         /\ outcome' = "raised"
         /\ exc' = to
         /\ UNCHANGED errors

----------------------------------------------------------------------------
Init ==
    /\ pc = "idle"
    /\ data = << >>
    /\ gi = 0
    /\ ei = 0
    /\ samples_iter = << >>
    /\ units = << >>
    /\ resource_need_to_be_updated = TRUE
    /\ calls = << >>
    /\ outcome = "none"
    /\ errors = {}
    /\ exc = "none"
    /\ StoreIdle
    /\ AttrIdle
    /\ AppIdle

\* record_metering_data(data) is called.
RecordMeteringData ==
    /\ pc = "idle"
    /\ \E batch \in Batches : data' = batch
    /\ pc' = "loop"
    /\ UNCHANGED << gi, ei, samples_iter, units, resource_need_to_be_updated,
                    calls, outcome, errors, exc >>
    /\ UNCHANGED << storeVars, attrVars, appVars >>

\* The loops reach the next extension that owns the group's counter_name
\* and call _process_samples with list(samples): what the group's
\* sub-iterator still holds, which the call to list() uses up.
ProcessSamples ==
    /\ pc = "loop"
    /\ LET groups == entity_grouped_samples(data)
           ps     == later_matches(groups, gi, ei)
       IN  /\ ps # {}
           /\ LET p  == first_match(ps)
                  it == IF p[1] = gi THEN samples_iter
                        ELSE groups[p[1]].samples
              IN  /\ gi' = p[1]
                  /\ ei' = p[2]
                  /\ samples_iter' = << >>
                  /\ units' = Append(units,
                         [resource_type |-> mgmr[p[2]].name,
                          resource_id |-> groups[p[1]].resource_id,
                          entity_name |-> groups[p[1]].entity_name,
                          samples |-> it])
    /\ resource_need_to_be_updated' = need_update_on_entry
    /\ calls' = << >>
    /\ outcome' = "running"
    /\ pc' = "post"
    /\ UNCHANGED << data, errors, exc >>
    /\ UNCHANGED << storeVars, attrVars, appVars >>

\* The loops run out: record_metering_data returns.
Return ==
    /\ pc = "loop"
    /\ later_matches(entity_grouped_samples(data), gi, ei) = {}
    /\ pc' = "returned"
    /\ UNCHANGED << data, gi, ei, samples_iter, units,
                    resource_need_to_be_updated, calls, outcome, errors, exc >>
    /\ UNCHANGED << storeVars, attrVars, appVars >>

\* The first _post_measure.
PostMeasure ==
    /\ pc = "post"
    /\ \E status_code \in StatusCodes :
        /\ calls' = Append(calls, Call("post_measure", status_code,
                                       measure_attributes(unit.samples)))
        /\ LET raised == post_measure_raises(status_code)
           IN  IF raised = "nothing"
               THEN Continue(after_posted(resource_need_to_be_updated,
                                          unit.samples))
               ELSE IF raised = "NoSuchEntity"
               THEN Continue(after_no_such_entity(unit.samples))
               ELSE Continue(raised)
    /\ UNCHANGED << data, gi, ei, samples_iter, units,
                    resource_need_to_be_updated >>
    /\ UNCHANGED << storeVars, attrVars, appVars >>

\* _create_resource, in the handler of NoSuchEntity.
CreateResource ==
    /\ pc = "create_resource"
    /\ \E status_code \in StatusCodes :
        /\ calls' = Append(calls, Call("create_resource", status_code, << >>))
        /\ LET raised == create_resource_raises(status_code)
           IN  IF raised = "nothing"
               THEN /\ resource_need_to_be_updated' = need_update_after_create
                    /\ Continue("retry_post")
               ELSE IF raised = "ResourceAlreadyExists"
               THEN /\ UNCHANGED resource_need_to_be_updated
                    /\ Continue("create_entity")
               ELSE /\ UNCHANGED resource_need_to_be_updated
                    /\ Continue(raised)
    /\ UNCHANGED << data, gi, ei, samples_iter, units >>
    /\ UNCHANGED << storeVars, attrVars, appVars >>

\* _create_entity, in the handler of ResourceAlreadyExists.
CreateEntity ==
    /\ pc = "create_entity"
    /\ \E status_code \in StatusCodes :
        /\ calls' = Append(calls, Call("create_entity", status_code, << >>))
        /\ LET raised == create_entity_raises(status_code)
           IN  IF raised \in {"nothing", "EntityAlreadyExists"}
               THEN Continue("retry_post")
               ELSE Continue(raised)
    /\ UNCHANGED << data, gi, ei, samples_iter, units,
                    resource_need_to_be_updated >>
    /\ UNCHANGED << storeVars, attrVars, appVars >>

\* The second _post_measure, still in the handler of NoSuchEntity: nothing
\* around it catches what it raises.
RetryPostMeasure ==
    /\ pc = "retry_post"
    /\ \E status_code \in StatusCodes :
        /\ calls' = Append(calls, Call("post_measure", status_code,
                                       measure_attributes(unit.samples)))
        /\ LET raised == post_measure_raises(status_code)
           IN  IF raised = "nothing"
               THEN Continue(after_posted(resource_need_to_be_updated,
                                          unit.samples))
               ELSE Continue(raised)
    /\ UNCHANGED << data, gi, ei, samples_iter, units,
                    resource_need_to_be_updated >>
    /\ UNCHANGED << storeVars, attrVars, appVars >>

\* _update_resource.
UpdateResource ==
    /\ pc = "update"
    /\ \E status_code \in StatusCodes :
        /\ calls' = Append(calls, Call("update_resource", status_code, << >>))
        /\ LET raised == update_resource_raises(status_code)
           IN  IF raised = "nothing"
               THEN Continue("return")
               ELSE Continue(raised)
    /\ UNCHANGED << data, gi, ei, samples_iter, units,
                    resource_need_to_be_updated >>
    /\ UNCHANGED << storeVars, attrVars, appVars >>

Next ==
    \/ RecordMeteringData
    \/ ProcessSamples
    \/ Return
    \/ PostMeasure
    \/ CreateResource
    \/ CreateEntity
    \/ RetryPostMeasure
    \/ UpdateResource

Spec == Init /\ [][Next]_vars

----------------------------------------------------------------------------
(* _get_resource_attributes, called on its own *)

\* Longest sample list handed to _get_resource_attributes.
MaxAttrSamples == 2

UserIds == {"u1", "u2"}
ProjectIds == {"p1", "p2"}
Metadata == {"m1", "m2"}

\* The fields of a sample _get_resource_attributes and the extension read.
AttrSamples ==
    [resource_id : ResourceIds, user_id : UserIds,
     project_id : ProjectIds, resource_metadata : Metadata]

AttrSampleLists(resource_id) ==
    UNION { [1..n -> {x \in AttrSamples : x.resource_id = resource_id}] :
            n \in 0..MaxAttrSamples }

\* self.gnocchi_archive_policy, with the default of the archive_policy option.
gnocchi_archive_policy == [archive_policy |-> "low"]

\* ext.obj.get_resource_extra_attributes(sample): the attributes the
\* extension extracts from one sample, none of them an identity field.
get_resource_extra_attributes(e, sample) ==
    IF mgmr[e].name = "instance"
    THEN [k \in {"display_name", "flavor_id"} |-> sample.resource_metadata]
    ELSE [k \in {"display_name"} |-> sample.resource_metadata]

IdentityKeys == {"id", "user_id", "project_id", "entities"}

\* A builder that reads the first sample of the list.
get_resource_attributes_of_first(e, resource_id, samples, for_update) ==
    IF samples = << >> THEN [raised |-> "IndexError"]
    ELSE LET first      == samples[1]
             attributes == get_resource_extra_attributes(e, first)
         IN  IF for_update THEN [raised |-> "nothing", value |-> attributes]
             ELSE [raised |-> "nothing", value |->
                   [k \in DOMAIN attributes \cup IdentityKeys |->
                     IF k = "id" THEN resource_id
                     ELSE IF k = "user_id" THEN first.user_id
                     ELSE IF k = "project_id" THEN first.project_id
                     ELSE IF k = "entities"
                     THEN [n \in mgmr[e].entities |-> gnocchi_archive_policy]
                     ELSE attributes[k]]]

\* _get_resource_attributes(ext, resource_id, entity_name, samples,
\* for_update): the extension's attributes of samples[-1], to which the
\* create variant adds id, user_id, project_id and entities.
get_resource_attributes(e, resource_id, samples, for_update) ==
    IF samples = << >> THEN [raised |-> "IndexError"]
    ELSE LET last       == samples[Len(samples)]
             attributes == get_resource_extra_attributes(e, last)
         IN  IF for_update THEN [raised |-> "nothing", value |-> attributes]
             ELSE [raised |-> "nothing", value |->
                   [k \in DOMAIN attributes \cup IdentityKeys |->
                     IF k = "id" THEN resource_id
                     ELSE IF k = "user_id" THEN last.user_id
                     ELSE IF k = "project_id" THEN last.project_id
                     ELSE IF k = "entities"
                     THEN [n \in mgmr[e].entities |-> gnocchi_archive_policy]
                     ELSE attributes[k]]]

AttrInit ==
    /\ DispatcherIdle
    /\ StoreIdle
    /\ AttrIdle
    /\ AppIdle

\* One call of _get_resource_attributes, with any arguments.
GetResourceAttributes ==
    /\ ~attr_args.called
    /\ \E e \in 1..Len(mgmr), resource_id \in ResourceIds, for_update \in BOOLEAN :
        \E samples \in AttrSampleLists(resource_id) :
            /\ attr_args' = [called |-> TRUE, ext |-> e, resource_id |-> resource_id,
                             samples |-> samples, for_update |-> for_update]
            /\ attr_result' = get_resource_attributes(e, resource_id, samples,
                                                      for_update)
    /\ UNCHANGED << vars, storeVars, appVars >>

AttrNext == GetResourceAttributes

SpecAttrs == AttrInit /\ [][AttrNext]_<< vars, storeVars, attrVars, appVars >>

----------------------------------------------------------------------------
(* Units run against a store that keeps whatever it accepted *)

\* Dispatchers that run one unit each, in any interleaving.
NumWriters == 2

Writers == 1..NumWriters

StoreResourceIds == {"r1"}

\* The (extension, resource, counter name) a unit can be run for.
Triples ==
    { t \in [ext : 1..Len(mgmr), resource_id : StoreResourceIds,
             entity_name : EntityNames] : owns(t.ext, t.entity_name) }

ResourceOf(t) == << mgmr[t.ext].name, t.resource_id >>

EntityOf(t) == << mgmr[t.ext].name, t.resource_id, t.entity_name >>

\* The stores a first call can meet: resources of any extension, each with
\* any of the entities its extension owns.
InitialStores ==
    { st \in [resources : SUBSET { ResourceOf(t) : t \in Triples },
              entities  : SUBSET { EntityOf(t) : t \in Triples }] :
        \A en \in st.entities : << en[1], en[2] >> \in st.resources }

\* The store's answers.
store_post_measure(st, entity) ==
    IF entity \in st.entities THEN 200 ELSE 404

store_create_resource(st, resource) ==
    IF resource \in st.resources THEN 409 ELSE 201

store_create_entity(st, entity) ==
    IF << entity[1], entity[2] >> \notin st.resources THEN 404
    ELSE IF entity \in st.entities THEN 409
    ELSE 201

store_update_resource(st, resource) ==
    IF resource \in st.resources THEN 200 ELSE 404

\* The store after an accepted creation: a created resource comes with
\* every entity named in the body's entities map.
store_with_resource(st, resource, body) ==
    [resources |-> st.resources \cup {resource},
     entities  |-> st.entities \cup
                   { << resource[1], resource[2], n >> :
                       n \in DOMAIN body["entities"] }]

store_with_entity(st, entity) ==
    [st EXCEPT !.entities = @ \cup {entity}]

\* list(samples) as the loop of record_metering_data hands it to extension
\* e: the group's samples for the first extension that owns the name, and
\* what is left of the iterator, nothing, for the later ones.
handed_samples(e, entity_name, samples) ==
    IF \E f \in 1..(e - 1) : owns(f, entity_name) THEN << >> ELSE samples

WriterIdle ==
    [pc |-> "idle", ext |-> 1, resource_id |-> "r1", entity_name |-> "cpu",
     samples |-> << >>, need_update |-> TRUE, calls |-> << >>,
     outcome |-> "none", late |-> FALSE]

StoreInit ==
    /\ DispatcherIdle
    /\ AttrIdle
    /\ AppIdle
    /\ store \in InitialStores
    /\ store0 = store
    /\ settled = {}
    /\ writers = [w \in Writers |-> WriterIdle]

WCall(op, status_code) == [op |-> op, status |-> status_code]

\* The writer after a step that made the call c and goes to `to`, as
\* Continue does for the dispatcher of Spec.
writer_after(wr, c, flag, to) ==
    LET cs == Append(wr.calls, c)
    IN  IF to \in {"create_resource", "create_entity", "retry_post", "update"}
        THEN [wr EXCEPT !.calls = cs, !.need_update = flag, !.pc = to]
        ELSE [wr EXCEPT !.calls = cs, !.need_update = flag, !.pc = "done",
                        !.outcome = IF to = "return" THEN "returned"
                                    ELSE IF ~escapes_decorator(to) THEN "logged"
                                    ELSE "raised"]

\* A unit that ended after a 2xx answer to one of its posts.
posted_ok(wr) ==
    /\ wr.pc = "done"
    /\ \E k \in 1..Len(wr.calls) :
           wr.calls[k].op = "post_measure" /\ is_2xx(wr.calls[k].status)

Step(w, wr) ==
    /\ writers' = [writers EXCEPT ![w] = wr]
    /\ settled' = IF posted_ok(wr) THEN settled \cup {EntityOf(wr)} ELSE settled

\* A dispatcher reaches _process_samples for one group of one sample.
WProcessSamples(w) ==
    /\ writers[w].pc = "idle"
    /\ \E t \in Triples :
        writers' = [writers EXCEPT ![w] =
            [pc |-> "post", ext |-> t.ext, resource_id |-> t.resource_id,
             entity_name |-> t.entity_name,
             samples |-> handed_samples(t.ext, t.entity_name,
                 << [resource_id |-> t.resource_id, user_id |-> "u1",
                     project_id |-> "p1", resource_metadata |-> "m1"] >>),
             need_update |-> need_update_on_entry, calls |-> << >>,
             outcome |-> "running", late |-> EntityOf(t) \in settled]]
    /\ UNCHANGED << store, store0, settled >>
    /\ UNCHANGED << vars, attrVars, appVars >>

WPostMeasure(w) ==
    LET wr          == writers[w]
        status_code == store_post_measure(store, EntityOf(wr))
        raised      == post_measure_raises(status_code)
    IN  /\ wr.pc = "post"
        /\ Step(w, writer_after(wr, WCall("post_measure", status_code),
                   wr.need_update,
                   IF raised = "nothing"
                   THEN after_posted(wr.need_update, wr.samples)
                   ELSE IF raised = "NoSuchEntity"
                   THEN after_no_such_entity(wr.samples)
                   ELSE raised))
        /\ UNCHANGED << store, store0 >>
        /\ UNCHANGED << vars, attrVars, appVars >>

WCreateResource(w) ==
    LET wr          == writers[w]
        body        == get_resource_attributes(wr.ext, wr.resource_id,
                                               wr.samples, FALSE).value
        status_code == store_create_resource(store, ResourceOf(wr))
        raised      == create_resource_raises(status_code)
    IN  /\ wr.pc = "create_resource"
        /\ store' = IF is_2xx(status_code)
                    THEN store_with_resource(store, ResourceOf(wr), body)
                    ELSE store
        /\ Step(w, writer_after(wr, WCall("create_resource", status_code),
                   IF raised = "nothing" THEN need_update_after_create
                   ELSE wr.need_update,
                   IF raised = "nothing" THEN "retry_post"
                   ELSE IF raised = "ResourceAlreadyExists" THEN "create_entity"
                   ELSE raised))
        /\ UNCHANGED store0
        /\ UNCHANGED << vars, attrVars, appVars >>

WCreateEntity(w) ==
    LET wr          == writers[w]
        status_code == store_create_entity(store, EntityOf(wr))
        raised      == create_entity_raises(status_code)
    IN  /\ wr.pc = "create_entity"
        /\ store' = IF is_2xx(status_code)
                    THEN store_with_entity(store, EntityOf(wr))
                    ELSE store
        /\ Step(w, writer_after(wr, WCall("create_entity", status_code),
                   wr.need_update,
                   IF raised \in {"nothing", "EntityAlreadyExists"}
                   THEN "retry_post"
                   ELSE raised))
        /\ UNCHANGED store0
        /\ UNCHANGED << vars, attrVars, appVars >>

WRetryPostMeasure(w) ==
    LET wr          == writers[w]
        status_code == store_post_measure(store, EntityOf(wr))
        raised      == post_measure_raises(status_code)
    IN  /\ wr.pc = "retry_post"
        /\ Step(w, writer_after(wr, WCall("post_measure", status_code),
                   wr.need_update,
                   IF raised = "nothing"
                   THEN after_posted(wr.need_update, wr.samples)
                   ELSE raised))
        /\ UNCHANGED << store, store0 >>
        /\ UNCHANGED << vars, attrVars, appVars >>

WUpdateResource(w) ==
    LET wr          == writers[w]
        status_code == store_update_resource(store, ResourceOf(wr))
        raised      == update_resource_raises(status_code)
    IN  /\ wr.pc = "update"
        /\ Step(w, writer_after(wr, WCall("update_resource", status_code),
                   wr.need_update,
                   IF raised = "nothing" THEN "return" ELSE raised))
        /\ UNCHANGED << store, store0 >>
        /\ UNCHANGED << vars, attrVars, appVars >>

StoreNext ==
    \/ \E w \in Writers : WProcessSamples(w)
    \/ \E w \in Writers : WPostMeasure(w)
    \/ \E w \in Writers : WCreateResource(w)
    \/ \E w \in Writers : WCreateEntity(w)
    \/ \E w \in Writers : WRetryPostMeasure(w)
    \/ \E w \in Writers : WUpdateResource(w)

SpecStore == StoreInit /\ [][StoreNext]_<< vars, storeVars, attrVars, appVars >>

----------------------------------------------------------------------------
(* gnocchi/rest/app.py: load_app, APPCONFIGS and app_factory *)

\* Number of load_app calls, which may run interleaved.
MaxLoads == 2

Loaders == 1..MaxLoads

Confs == {"conf1", "conf2"}

\* What str(uuid.uuid4()) can return.
Uuids == { << "uuid", i >> : i \in 1..MaxLoads }

\* A uuid4 that is the same at every call.
new_configkeys_constant(used) == { << "uuid", 1 >> }

\* configkey = str(uuid.uuid4()): any uuid not handed out before.
new_configkeys(used) == Uuids \ used

\* The drivers load_app loads itself when the caller passes none.
storage_of(conf, storage) ==
    IF storage = "none" THEN << "storage driver of", conf >> ELSE storage

indexer_of(conf, indexer) ==
    IF indexer = "none" THEN << "indexer driver of", conf >> ELSE indexer

\* config = dict(conf=conf, indexer=indexer, storage=storage,
\*               not_implemented_middleware=not_implemented_middleware)
config_of(conf, indexer, storage, not_implemented_middleware) ==
    [conf |-> conf, indexer |-> indexer_of(conf, indexer),
     storage |-> storage_of(conf, storage),
     not_implemented_middleware |-> not_implemented_middleware]

\* _setup_app(root, **appconfig): the app with its hook and, when asked
\* for, the NotImplementedMiddleware around it.
setup_app(appconfig) ==
    [debug_of |-> appconfig.conf,
     hook |-> << appconfig.storage, appconfig.indexer, appconfig.conf >>,
     wrapped |-> appconfig.not_implemented_middleware]

\* APPCONFIGS[configkey] = config
dict_set(d, key, value) ==
    [k \in DOMAIN d \cup {key} |-> IF k = key THEN value ELSE d[k]]

LoaderIdle == [pc |-> "idle"]

AppInit ==
    /\ DispatcherIdle
    /\ StoreIdle
    /\ AttrIdle
    /\ APPCONFIGS = << >>
    /\ loaders = [i \in Loaders |-> LoaderIdle]

\* load_app up to the check of the paste configuration: the drivers are
\* resolved, and a missing file raises ConfigFilesNotFoundError.
LoadApp(i) ==
    /\ loaders[i].pc = "idle"
    /\ \E conf \in Confs, found \in BOOLEAN, indexer \in {"none", "indexer1"},
          storage \in {"none", "storage1"}, nim \in BOOLEAN :
        loaders' = [loaders EXCEPT ![i] =
            IF found
            THEN [pc |-> "register",
                  config |-> config_of(conf, indexer, storage, nim)]
            ELSE [pc |-> "raised", exc |-> "ConfigFilesNotFoundError"]]
    /\ UNCHANGED APPCONFIGS
    /\ UNCHANGED << vars, storeVars, attrVars >>

\* The call stores its config under a new key.
Register(i) ==
    /\ loaders[i].pc = "register"
    /\ \E configkey \in new_configkeys(DOMAIN APPCONFIGS) :
        /\ APPCONFIGS' = dict_set(APPCONFIGS, configkey, loaders[i].config)
        /\ loaders' = [loaders EXCEPT ![i] =
              [pc |-> "loadapp", config |-> loaders[i].config,
               configkey |-> configkey]]
    /\ UNCHANGED << vars, storeVars, attrVars >>

\* deploy.loadapp calls app_factory with global_conf = {configkey}.
AppFactory(i) ==
    /\ loaders[i].pc = "loadapp"
    /\ loaders' = [loaders EXCEPT ![i] =
          IF loaders[i].configkey \in DOMAIN APPCONFIGS
          THEN [pc |-> "loaded", config |-> loaders[i].config,
                configkey |-> loaders[i].configkey,
                app |-> setup_app(APPCONFIGS[loaders[i].configkey])]
          ELSE [pc |-> "raised", exc |-> "TypeError"]]
    /\ UNCHANGED APPCONFIGS
    /\ UNCHANGED << vars, storeVars, attrVars >>

AppNext ==
    \/ \E i \in Loaders : LoadApp(i)
    \/ \E i \in Loaders : Register(i)
    \/ \E i \in Loaders : AppFactory(i)

SpecApp == AppInit /\ [][AppNext]_<< vars, storeVars, attrVars, appVars >>

----------------------------------------------------------------------------
(* Vocabulary of the properties *)

Ops(cs) == [k \in 1..Len(cs) |-> cs[k].op]

Statuses(cs) == [k \in 1..Len(cs) |-> cs[k].status]

IsPrefix(s, t) == Len(s) <= Len(t) /\ s = SubSeq(t, 1, Len(s))

\* The last _process_samples call is over and calls still shows its calls.
UnitEnded == outcome \in {"returned", "logged", "raised"}

\* record_metering_data is over, one way or the other.
DispatchEnded == pc \in {"returned", "raised"}

\* The samples of the batch that belong to a (resource_id, counter_name) pair.
OfPair(seq, rid, name) ==
    SelectSeq(seq, LAMBDA x : x.resource_id = rid /\ x.counter_name = name)

RECURSIVE Flatten(_)
Flatten(groups) ==
    IF groups = << >> THEN << >>
    ELSE Head(groups).samples \o Flatten(Tail(groups))

\* Some _process_samples call was made for this extension, resource and name.
HasUnit(e, rid, name) ==
    \E k \in 1..Len(units) :
        /\ units[k].resource_type = mgmr[e].name
        /\ units[k].resource_id = rid
        /\ units[k].entity_name = name

\* The unit of resource rid met a non-2xx other than the 404 of the first
\* post and the 409 of a creation: it was logged by the decorator, or it is
\* the 404 of the retry post.
FatalFor(rid) ==
    \/ rid \in errors
    \/ exc = "NoSuchEntity" /\ unit.resource_id = rid

----------------------------------------------------------------------------
(* C1 *)

\* C1: for every batch and every sequence of store responses,
\* record_metering_data returns normally: no exception leaves the dispatch
\* of the batch.
C1_NoExceptionEscapes == pc # "raised"

(* C2 *)

\* C2: when the retry post (the second post_measure of a unit) gets any
\* non-2xx response, a second 404 included, it is the unit's last call, the
\* unit ends as a logged error and record_metering_data goes on with the
\* remaining units.
C2_RetryFailureIsLoggedAndIsolated ==
    \A k \in 2..Len(calls) :
        (calls[k].op = "post_measure" /\ ~is_2xx(calls[k].status))
        => /\ k = Len(calls)
           /\ outcome = "logged"
           /\ unit.resource_id \in errors
           /\ pc # "raised"

(* C3 *)

\* C3: once the dispatch of a batch is over, if a unit of resource A met an
\* unexpected remote failure, every sample of another resource B whose
\* counter_name is owned by an extension has had its unit run for that
\* extension (and so its measurement post issued), wherever A and B stand
\* in the batch.
C3_FatalPathIsolation ==
    DispatchEnded =>
        \A A \in ResourceIds : \A i \in 1..Len(data) :
            (FatalFor(A) /\ data[i].resource_id # A)
            => \A e \in 1..Len(mgmr) :
                   owns(e, data[i].counter_name)
                   => HasUnit(e, data[i].resource_id, data[i].counter_name)

(* C4 *)

\* C4 as stated: a unit whose first post is answered 2xx issues exactly
\* one measurement post and no create-resource, create-entity or update
\* call.
C4_SteadyStateOnlyPost ==
    (UnitEnded /\ calls # << >> /\ is_2xx(calls[1].status))
    => Ops(calls) = << "post_measure" >>

\* C4 amended: a unit whose first post is answered 2xx issues exactly one
\* measurement post, no create-resource and no create-entity call, and then
\* one update call, resource_need_to_be_updated being still true; only a
\* unit handed an empty sample list issues no update, because building the
\* update body raises IndexError.
C4_SteadyStatePostThenUpdate ==
    (UnitEnded /\ calls # << >> /\ is_2xx(calls[1].status))
    => \/ Ops(calls) = << "post_measure", "update_resource" >>
       \/ /\ Ops(calls) = << "post_measure" >>
          /\ unit.samples = << >>
          /\ exc = "IndexError"

C4_Witness ==
    /\ outcome = "returned"
    /\ Len(calls) = 2
    /\ is_2xx(calls[1].status)
    /\ calls[2].op = "update_resource"
    /\ unit.samples # << >>

(* C5 *)

\* C5: when the first post is answered 404 and create-resource 2xx, the
\* unit's calls are post, create-resource, post (retry) in that order and
\* nothing else, whatever the answer to the retry post.
C5_ColdStartResourceMissing ==
    (Len(calls) >= 2 /\ calls[1].status = 404 /\ is_2xx(calls[2].status))
    => /\ IsPrefix(Ops(calls),
                   << "post_measure", "create_resource", "post_measure" >>)
       /\ Len(calls) = 2 => pc = "retry_post"
       /\ Len(calls) = 3 <=> UnitEnded

C5_Witness ==
    /\ UnitEnded
    /\ Ops(calls) = << "post_measure", "create_resource", "post_measure" >>
    /\ calls[1].status = 404
    /\ is_2xx(calls[2].status)
    /\ is_2xx(calls[3].status)
    /\ outcome = "returned"

(* C6 *)

\* C6: when the first post is answered 404, create-resource 409,
\* create-entity 2xx and the retry post 2xx, the unit's calls are post,
\* create-resource, create-entity, post (retry), update, in that order.
C6_ColdStartEntityMissing ==
    (/\ Len(calls) >= 4
     /\ calls[1].status = 404
     /\ calls[2].status = 409
     /\ is_2xx(calls[3].status)
     /\ is_2xx(calls[4].status))
    => /\ IsPrefix(Ops(calls),
                   << "post_measure", "create_resource", "create_entity",
                      "post_measure", "update_resource" >>)
       /\ Len(calls) = 4 => pc = "update"
       /\ Len(calls) = 5 <=> UnitEnded

C6_Witness ==
    /\ outcome = "returned"
    /\ Ops(calls) = << "post_measure", "create_resource", "create_entity",
                       "post_measure", "update_resource" >>
    /\ Statuses(calls) = << 404, 409, 200, 200, 200 >>

(* C7 *)

\* C7: when the first post is answered 404, create-resource 409 and
\* create-entity 409, the unit does not end there: it goes on to the retry
\* post, with resource_need_to_be_updated still true, as after a 2xx from
\* create-entity.
C7_EntityRaceGoesOnToRetry ==
    (/\ Len(calls) >= 3
     /\ calls[1].status = 404
     /\ calls[2].status = 409
     /\ calls[3].status = 409)
    => /\ calls[3].op = "create_entity"
       /\ resource_need_to_be_updated
       /\ Len(calls) = 3 => (pc = "retry_post" /\ outcome = "running")
       /\ Len(calls) >= 4 => calls[4].op = "post_measure"

C7_Witness ==
    /\ Len(calls) = 4
    /\ SubSeq(Statuses(calls), 1, 3) = << 404, 409, 409 >>
    /\ calls[3].op = "create_entity"
    /\ calls[4].op = "post_measure"

(* C8 *)

\* C8: within one dispatch, each (resource_id, counter_name) pair of the
\* batch yields exactly one unit per owning extension, and that unit
\* carries every sample of the pair, also when the samples of different
\* resources or names are interleaved.
C8_OneUnitPerPairWithAllSamples ==
    /\ \A k \in 1..Len(units) :
          /\ units[k].samples =
                 OfPair(data, units[k].resource_id, units[k].entity_name)
          /\ \A j \in 1..Len(units) :
                (/\ units[j].resource_type = units[k].resource_type
                 /\ units[j].resource_id = units[k].resource_id
                 /\ units[j].entity_name = units[k].entity_name)
                => j = k
    /\ pc = "returned" =>
          \A i \in 1..Len(data) : \A e \in 1..Len(mgmr) :
              owns(e, data[i].counter_name)
              => HasUnit(e, data[i].resource_id, data[i].counter_name)

(* C9 *)

\* C9: the groups the grouper produces, concatenated in production order,
\* hold each sample of the batch exactly once, and the samples of every
\* (resource_id, counter_name) pair in their original relative order.
C9_GroupingKeepsSamplesAndOrder ==
    LET flat == Flatten(entity_grouped_samples(data))
    IN  /\ Len(flat) = Len(data)
        /\ \A key \in Keys :
              OfPair(flat, key[1], key[2]) = OfPair(data, key[1], key[2])

C9_Witness ==
    /\ pc = "loop"
    /\ Len(data) = 3
    /\ Len(entity_grouped_samples(data)) = 3
    /\ data[1].resource_id = data[3].resource_id
    /\ data[1].counter_name = data[3].counter_name
    /\ data[2].resource_id # data[1].resource_id

(* C10 *)

\* C10: when the counter_name of a group is owned by several extensions,
\* each of the _process_samples calls made for the group receives the
\* group's whole sample sequence, and posts the measurements built from it.
C10_EveryOwnerGetsTheGroup ==
    units # << >> =>
        LET group == entity_grouped_samples(data)[gi]
        IN  /\ unit.samples = group.samples
            /\ \A k \in 1..Len(calls) :
                  calls[k].op = "post_measure"
                  => calls[k].body = measure_attributes(group.samples)

(* C11 *)

\* C11: the retry post of a unit is sent to the same path as its first
\* post and carries the same body: the {timestamp, value} records of the
\* samples of the group, one per sample, in order, whichever recovery
\* branch was taken in between.
C11_RetryPayloadEqualsFirst ==
    \A k \in 2..Len(calls) :
        calls[k].op = "post_measure"
        => LET group == entity_grouped_samples(data)[gi].samples
           IN  /\ calls[k].url = calls[1].url
               /\ calls[k].body = calls[1].body
               /\ Len(calls[k].body) = Len(group)
               /\ \A i \in 1..Len(group) :
                     /\ calls[k].body[i].timestamp = group[i].timestamp
                     /\ calls[k].body[i].value = group[i].counter_volume

C11_Witness ==
    /\ Len(calls) = 4
    /\ calls[3].op = "create_entity"
    /\ calls[4].op = "post_measure"
    /\ Len(calls[4].body) = 2
    /\ calls[4].body[1] # calls[4].body[2]

(* C12 *)

\* C12: a unit makes at most 5 calls and its calls follow the protocol:
\* post first; create-resource only right after a 404 on the first post;
\* create-entity only right after a 409 on create-resource; the retry post
\* only after a 2xx on create-resource or a 2xx or 409 on create-entity;
\* update only as the last call and right after a 2xx post; post at most
\* twice and every other call at most once.
C12_CallsFollowTheProtocol ==
    LET n == Len(calls)
        count(op) == Cardinality({k \in 1..n : calls[k].op = op})
    IN  /\ n <= 5
        /\ n >= 1 => calls[1].op = "post_measure"
        /\ \A k \in 2..n :
              /\ calls[k].op = "create_resource"
                 => k = 2 /\ calls[1].status = 404
              /\ calls[k].op = "create_entity"
                 => /\ calls[k - 1].op = "create_resource"
                    /\ calls[k - 1].status = 409
              /\ calls[k].op = "post_measure"
                 => \/ /\ calls[k - 1].op = "create_resource"
                       /\ is_2xx(calls[k - 1].status)
                    \/ /\ calls[k - 1].op = "create_entity"
                       /\ is_2xx(calls[k - 1].status) \/ calls[k - 1].status = 409
              /\ calls[k].op = "update_resource"
                 => /\ k = n
                    /\ calls[k - 1].op = "post_measure"
                    /\ is_2xx(calls[k - 1].status)
        /\ count("post_measure") <= 2
        /\ count("create_resource") <= 1
        /\ count("create_entity") <= 1
        /\ count("update_resource") <= 1

C12_Witness ==
    /\ UnitEnded
    /\ Len(calls) = 5
    /\ calls[5].op = "update_resource"

(* C13 *)

\* C13: a non-2xx other than 404 on the first post, other than 409 on
\* create-resource or create-entity, or any non-2xx on update, ends the
\* unit at that call: it is the unit's last call.
C13_UnexpectedStatusEndsTheUnit ==
    \A k \in 1..Len(calls) :
        (/\ ~is_2xx(calls[k].status)
         /\ \/ k = 1 /\ calls[k].status # 404
            \/ calls[k].op \in {"create_resource", "create_entity"}
               /\ calls[k].status # 409
            \/ calls[k].op = "update_resource")
        => /\ k = Len(calls)
           /\ UnitEnded
           /\ pc \notin {"create_resource", "create_entity", "retry_post", "update"}

C13_Witness ==
    /\ outcome = "logged"
    /\ Len(calls) = 2
    /\ calls[2].op = "create_resource"
    /\ calls[2].status = 500

(* C14 *)

\* C14: resource_need_to_be_updated is not carried between units: every
\* unit starts with the flag true, the flag is false only in a unit whose
\* create-resource was answered 2xx, and so every unit that did not create
\* the resource itself and whose post succeeds goes on to issue the update.
C14_FlagIsPerUnit ==
    LET created == \E k \in 1..Len(calls) :
                       calls[k].op = "create_resource" /\ is_2xx(calls[k].status)
        posted  == /\ calls # << >>
                   /\ calls[Len(calls)].op = "post_measure"
                   /\ is_2xx(calls[Len(calls)].status)
    IN  /\ pc = "post" => resource_need_to_be_updated
        /\ (units # << >> /\ ~resource_need_to_be_updated) => created
        /\ (posted /\ ~created) => pc = "update"

(* C18 *)

\* C18: a group whose counter_name no extension owns causes no call and
\* no log record: every unit is one of an extension that owns the unit's
\* counter_name, only resources of units are named in error records, and a
\* dispatch that returns has run a unit for every owned sample of the batch.
C18_UnownedGroupIsSkipped ==
    /\ \A k \in 1..Len(units) :
          \E e \in 1..Len(mgmr) :
              /\ mgmr[e].name = units[k].resource_type
              /\ units[k].entity_name \in mgmr[e].entities
    /\ errors \subseteq {units[k].resource_id : k \in 1..Len(units)}
    /\ (units = << >>) => (calls = << >> /\ exc = "none")
    /\ pc = "returned" =>
          \A i \in 1..Len(data) : \A e \in 1..Len(mgmr) :
              data[i].counter_name \in mgmr[e].entities
              => HasUnit(e, data[i].resource_id, data[i].counter_name)

C18_Witness ==
    /\ pc = "returned"
    /\ Len(data) = 3
    /\ data[1].counter_name = "net"
    /\ data[2].counter_name = "cpu"
    /\ data[3].counter_name = "net"
    /\ Len(units) = 1
    /\ data[1].resource_id = data[2].resource_id
    /\ data[3].resource_id # data[2].resource_id

(* C17 *)

\* C17: the create body is built from the last sample of the list alone:
\* id is the unit's resource_id, user_id and project_id are those of the
\* last sample, entities binds every counter name the extension owns to the
\* configured archive policy, and the other keys are the attributes
\* extracted from the last sample; the update body is exactly the
\* attributes extracted from the last sample, with none of id, user_id,
\* project_id, entities.
C17_BodiesComeFromLastSample ==
    (attr_args.called /\ attr_args.samples # << >>)
    => LET a         == attr_args
           last      == a.samples[Len(a.samples)]
           extracted == get_resource_extra_attributes(a.ext, last)
           body      == attr_result.value
       IN  /\ attr_result.raised = "nothing"
           /\ IF a.for_update
              THEN /\ body = extracted
                   /\ DOMAIN body \cap IdentityKeys = {}
              ELSE /\ DOMAIN body = DOMAIN extracted \cup IdentityKeys
                   /\ body["id"] = a.resource_id
                   /\ body["user_id"] = last.user_id
                   /\ body["project_id"] = last.project_id
                   /\ DOMAIN body["entities"] = mgmr[a.ext].entities
                   /\ \A n \in mgmr[a.ext].entities :
                         body["entities"][n] = [archive_policy |-> "low"]
                   /\ \A k \in DOMAIN extracted : body[k] = extracted[k]

C17_Witness ==
    /\ attr_args.called
    /\ ~attr_args.for_update
    /\ Len(attr_args.samples) = 2
    /\ attr_args.samples[1].user_id # attr_args.samples[2].user_id
    /\ attr_args.samples[1].project_id # attr_args.samples[2].project_id
    /\ attr_result.value["user_id"] = attr_args.samples[2].user_id
    /\ Cardinality(DOMAIN attr_result.value["entities"]) = 2

(* C15 *)

\* C15: against a store that keeps every resource and entity it accepted,
\* once a unit for a (type, resource, name) has ended after a successful
\* post, a unit started later for the same triple issues no create-resource
\* and no create-entity call.
C15_NoCreationOnceSettled ==
    \A w \in Writers :
        writers[w].late
        => /\ writers[w].pc \notin {"create_resource", "create_entity"}
           /\ \A k \in 1..Len(writers[w].calls) :
                 writers[w].calls[k].op \notin {"create_resource", "create_entity"}

C15_Witness ==
    \E v, w \in Writers :
        /\ v # w
        /\ writers[v].pc = "done"
        /\ Ops(writers[v].calls) =
               << "post_measure", "create_resource", "post_measure" >>
        /\ writers[w].late
        /\ writers[w].pc = "done"
        /\ EntityOf(writers[w]) = EntityOf(writers[v])
        /\ Ops(writers[w].calls) = << "post_measure", "update_resource" >>

(* C16 *)

\* The calls of kind op answered 2xx that the writers made for a resource.
Accepted(op, resource) ==
    { << w, k >> \in Writers \X (1..5) :
        /\ k <= Len(writers[w].calls)
        /\ ResourceOf(writers[w]) = resource
        /\ writers[w].calls[k].op = op
        /\ is_2xx(writers[w].calls[k].status) }

\* C16: when two dispatchers run the protocol for the same (type, resource,
\* name) against the store, then under every interleaving of their calls,
\* once both are over: neither ended with an error, each got a 2xx for its
\* measurement post, and the resource and the entity were each created
\* exactly once (not at all if the store already had them).
C16_ConcurrentWritersBothSucceed ==
    \A v, w \in Writers :
        (/\ v # w
         /\ \A x \in Writers : writers[x].pc = "done"
         /\ EntityOf(writers[v]) = EntityOf(writers[w]))
        => LET wr       == writers[w]
               resource == ResourceOf(wr)
               entity   == EntityOf(wr)
               made     == Accepted("create_resource", resource)
               added    == { c \in Accepted("create_entity", resource) :
                               EntityOf(writers[c[1]]) = entity }
           IN  /\ wr.outcome = "returned"
               /\ \E k \in 1..Len(wr.calls) :
                     /\ wr.calls[k].op = "post_measure"
                     /\ is_2xx(wr.calls[k].status)
               /\ resource \in store.resources
               /\ entity \in store.entities
               /\ Cardinality(made) =
                      (IF resource \in store0.resources THEN 0 ELSE 1)
               /\ Cardinality(made) + Cardinality(added) =
                      (IF entity \in store0.entities THEN 0 ELSE 1)

(* C19 *)

Registered == { i \in Loaders : loaders[i].pc \in {"loadapp", "loaded"} }

Called == { i \in Loaders : loaders[i].pc # "idle" }

\* Every call that registered has its own key, APPCONFIGS still holds its
\* config under that key, and the app app_factory built for it is the one
\* of that config.
EntriesAreKept ==
    /\ \A i, j \in Registered :
          loaders[i].configkey = loaders[j].configkey => i = j
    /\ \A i \in Registered :
          /\ loaders[i].configkey \in DOMAIN APPCONFIGS
          /\ APPCONFIGS[loaders[i].configkey] = loaders[i].config
    /\ \A i \in Loaders :
          loaders[i].pc = "loaded"
          => loaders[i].app = setup_app(loaders[i].config)

\* C19 as stated: after any interleaving of load_app calls, APPCONFIGS holds
\* one entry per call under a distinct new key, no call overwrites or
\* removes the entry of another, and app_factory builds each call's app
\* from exactly the conf, indexer, storage and not_implemented_middleware of
\* that call.
C19_OneEntryPerCall ==
    /\ (\A i \in Loaders : loaders[i].pc \notin {"register"})
       => Cardinality(DOMAIN APPCONFIGS) = Cardinality(Called)
    /\ EntriesAreKept

\* C19 amended: APPCONFIGS holds one entry per call that found its paste
\* configuration file (a call that raises ConfigFilesNotFoundError
\* registers nothing), each under a distinct new key; no call overwrites or
\* removes the entry of another; and app_factory builds each call's app
\* from exactly the conf, indexer, storage and not_implemented_middleware of
\* that call, no call ending in app_factory without its entry.
C19_OneEntryPerRegisteredCall ==
    /\ Cardinality(DOMAIN APPCONFIGS) = Cardinality(Registered)
    /\ EntriesAreKept
    /\ \A i \in Loaders :
          loaders[i].pc = "raised"
          => loaders[i].exc = "ConfigFilesNotFoundError"

C19_Witness ==
    /\ \A i \in Loaders : loaders[i].pc = "loaded"
    /\ loaders[1].config # loaders[2].config
    /\ loaders[1].app # loaders[2].app
    /\ Cardinality(DOMAIN APPCONFIGS) = MaxLoads

====
